---- MODULE Spec2Model ----
(***************************************************************************)
(* Model of the stopwatch package (src/stopwatch.go): the timer / lap      *)
(* state machine of type Stopwatch.  Time is an integer number of clock    *)
(* units; time.Duration is an integer difference of two times.             *)
(***************************************************************************)
EXTENDS Integers, Sequences, FiniteSets, TLC

\* ------------------------------------------------------------------ bounds
MaxTime == 3   \* time.Now() reads ZeroTime+1 .. MaxTime
MaxLaps == 2   \* lap recordings are disabled once the history is this long

\* ------------------------------------------------------------ value domains
\* time.Time{} : the zero time, used by the code as the "unset" sentinel of stop
ZeroTime == 0

RefTimes  == (ZeroTime + 1) .. MaxTime   \* caller supplied reference times
Offsets   == {-1, 0, 2}                  \* offsets handed to New / Reset
Labels    == {"a", "b"}                  \* lap labels (state)
NilData   == "nil"                       \* a nil map[string]interface{}
DataVals  == {NilData, "d1"}             \* identities of metadata maps
NilFunc   == "nilFunc"                   \* a nil func(time.Duration) string
defaultFormatter == "defaultFormatter"
Formatters == {defaultFormatter, "custom"}

FormattingModeJsonArray        == "JSON_ARRAY"
FormattingModeJsonSimpleObject == "JSON_OBJECT"
FormattingModeJsonMsObject     == "JSON_OBJECT_MS"
defaultFormattingMode          == FormattingModeJsonArray
Modes == {FormattingModeJsonArray, FormattingModeJsonSimpleObject,
          FormattingModeJsonMsObject, ""}

\* The Lap value built by the composite literal of LapWithDataAndTime
MkLap(f, st, d, dt) == [formatter |-> f, state |-> st, duration |-> d, data |-> dt]
\* The zero value of type Lap (the content of fresh array cells)
ZeroLap == MkLap(NilFunc, "", 0, NilData)

\* ------------------------------------------------------------------- state
VARIABLES
  now,            \* the clock read by time.Now() / time.Since()
  start,          \* Stopwatch.start
  stop,           \* Stopwatch.stop (ZeroTime = unset = active)
  mark,           \* Stopwatch.mark
  laps,           \* Stopwatch.laps : a slice header [arr, len, cap]
  heap,           \* backing arrays of []Lap slices, by array id
  formatter,      \* Stopwatch.formatter
  formattingMode, \* Stopwatch.formattingMode
  returned,       \* the slice header the caller got from its last Laps() call
  last,           \* the last call: its name, arguments and return value
  pc,             \* concurrent callers: the position of each in its call
  call,           \* concurrent callers: the call of each, with its locals
  writer,         \* sync.RWMutex: the caller holding the lock for writing
  readers,        \* sync.RWMutex: the callers holding the lock for reading
  acq,            \* lap recordings since the last Reset, in the order they
                  \* acquired the lock
  committed       \* the <<start, stop>> pair left by the latest whole write
                  \* operation, and the set of those left since the oldest
                  \* unlocked read in flight began (the one before it included)

vars == <<now, start, stop, mark, laps, heap, formatter, formattingMode,
          returned, last, pc, call, writer, readers, acq, committed>>

\* the fields of the Stopwatch, the clock and the single caller's record
seqVars == <<now, start, stop, mark, laps, heap, formatter, formattingMode,
             returned, last>>

\* concurrent callers
Threads == {"T1", "T2"}
NoThread == "none"
\* no call in flight, none made yet
NoCall == [op |-> "", offset |-> 0, active |-> FALSE, t |-> ZeroTime, ret |-> 0,
           sawStop |-> ZeroTime, sawStart |-> ZeroTime, legal |-> {}]

\* positions of a call that reads start and stop without holding the lock
ReadPcs == {"read", "read2", "read3", "since"}

\* a write operation is complete: its <<start, stop>> pair is one a reader
\* may see; pairs older than every unlocked read in flight are forgotten
Commit ==
  committed' =
    [latest |-> <<start', stop'>>,
     seen   |-> IF \E th \in Threads : pc'[th] \in ReadPcs
                  THEN committed.seen \cup {<<start', stop'>>}
                  ELSE {<<start', stop'>>}]

\* a single caller: no concurrent call is in flight and the lock is free
OneCaller ==
  /\ UNCHANGED <<pc, call, writer, readers, acq>>
  /\ Commit

\* ------------------------------------------------------- slices of []Lap
ArrIds   == 1 .. 3          \* 1: array of s.laps, 2: array of the caller, 3: fresh
NilSlice == [arr |-> 0, len |-> 0, cap |-> 0]
EmptyHeap == [a \in ArrIds |-> <<>>]

\* the elements a slice header denotes
Elems(h, sl) == IF sl.arr = 0 THEN <<>> ELSE SubSeq(h[sl.arr], 1, sl.len)

\* n zero values
Zeros(n) == [i \in 1 .. n |-> ZeroLap]

\* Array ids are addresses: they are renamed after every operation so that the
\* array of s.laps is 1 and a distinct array of the caller is 2; arrays that
\* nothing refers to are collected.
NormArr(l, r) == IF r.arr = 0 THEN 0 ELSE IF r.arr = l.arr THEN 1 ELSE 2
NormHeap(h, l, r) ==
  [a \in ArrIds |->
     IF a = 1 /\ l.arr # 0 THEN h[l.arr]
     ELSE IF a = 2 /\ r.arr # 0 /\ r.arr # l.arr THEN h[r.arr]
     ELSE <<>>]
NormLaps(l) == IF l.arr = 0 THEN l ELSE [l EXCEPT !.arr = 1]
NormRet(l, r) == [r EXCEPT !.arr = NormArr(l, r)]

\* append(sl, x): in place when there is spare capacity, else into a fresh
\* array of doubled capacity
GrowCap(c) == IF c = 0 THEN 1 ELSE 2 * c
AppendHeap(h, sl, x) ==
  IF sl.len < sl.cap
    THEN [h EXCEPT ![sl.arr][sl.len + 1] = x]
    ELSE [h EXCEPT ![3] = Elems(h, sl) \o <<x>> \o Zeros(GrowCap(sl.cap) - sl.len - 1)]
AppendSlice(sl, x) ==
  IF sl.len < sl.cap
    THEN [sl EXCEPT !.len = @ + 1]
    ELSE [arr |-> 3, len |-> sl.len + 1, cap |-> GrowCap(sl.cap)]

\* ----------------------------------------------------------- pure helpers
active == stop = ZeroTime

\* faulty variant: the stored stop is ignored
ElapsedTimeLive == now - start

ElapsedTime == IF active THEN now - start ELSE stop - start

\* faulty variant: the reference time is used even when stopped
ElapsedTimeFromLive(t) == t - start

ElapsedTimeFrom(t) == IF active THEN t - start ELSE stop - start

\* the lap history as a sequence of Lap values
History == Elems(heap, laps)

\* the record of a call: its arguments, what it returned (ret, lap, text),
\* whether it found the stopwatch active, the diff computed by Start and the
\* clock reading taken by New / Reset (at)
Call(name, o, a, t, st, dt, f, m, ret, lap) ==
  [op |-> name, offset |-> o, active |-> a, t |-> t, state |-> st, data |-> dt,
   formatter |-> f, mode |-> m, ret |-> ret, lap |-> lap, wasActive |-> active,
   diff |-> 0, at |-> ZeroTime, text |-> ""]
Void(name) == Call(name, 0, FALSE, ZeroTime, "", NilData, NilFunc, "", 0, ZeroLap)

\* ------------------------------------------------------------ operations
Tick ==
  /\ now < MaxTime
  /\ now' = now + 1
  /\ UNCHANGED <<start, stop, mark, laps, heap, formatter, formattingMode, returned, last>>

\* faulty variant: mark survives the reset
ResetKeepsMark(offset, act) ==
  /\ start' = now - offset
  /\ stop' = IF act THEN ZeroTime ELSE now
  /\ laps' = NilSlice
  /\ heap' = NormHeap(heap, NilSlice, returned)
  /\ returned' = NormRet(NilSlice, returned)
  /\ last' = [Void("Reset") EXCEPT !.offset = offset, !.active = act, !.at = now]
  /\ UNCHANGED <<now, mark, formatter, formattingMode>>

\* faulty variant: the reset also restores the default formatter
ResetDefaultsFormatter(offset, act) ==
  /\ start' = now - offset
  /\ stop' = IF act THEN ZeroTime ELSE now
  /\ mark' = 0
  /\ laps' = NilSlice
  /\ heap' = NormHeap(heap, NilSlice, returned)
  /\ returned' = NormRet(NilSlice, returned)
  /\ formatter' = defaultFormatter
  /\ last' = [Void("Reset") EXCEPT !.offset = offset, !.active = act, !.at = now]
  /\ UNCHANGED <<now, formattingMode>>

\* faulty variant: the offset is added to the clock reading
ResetAddsOffset(offset, act) ==
  /\ start' = now + offset
  /\ stop' = IF act THEN ZeroTime ELSE now
  /\ mark' = 0
  /\ laps' = NilSlice
  /\ heap' = NormHeap(heap, NilSlice, returned)
  /\ returned' = NormRet(NilSlice, returned)
  /\ last' = [Void("Reset") EXCEPT !.offset = offset, !.active = act, !.at = now]
  /\ UNCHANGED <<now, formatter, formattingMode>>

Reset(offset, act) ==
  /\ start' = now - offset
  /\ stop' = IF act THEN ZeroTime ELSE now
  /\ mark' = 0
  /\ laps' = NilSlice
  /\ heap' = NormHeap(heap, NilSlice, returned)
  /\ returned' = NormRet(NilSlice, returned)
  /\ last' = [Void("Reset") EXCEPT !.offset = offset, !.active = act, !.at = now]
  /\ UNCHANGED <<now, formatter, formattingMode>>

\* faulty variant: the stop point moves on every call
StopAlways ==
  /\ stop' = now
  /\ last' = Void("Stop")
  /\ UNCHANGED <<now, start, mark, laps, heap, formatter, formattingMode, returned>>

Stop ==
  /\ stop' = IF active THEN now ELSE stop
  /\ last' = Void("Stop")
  /\ UNCHANGED <<now, start, mark, laps, heap, formatter, formattingMode, returned>>

\* faulty variant: resuming does not shift start by the paused interval
StartNoShift ==
  /\ start' = start
  /\ stop' = ZeroTime
  /\ last' = [Void("Start") EXCEPT !.diff = IF active THEN 0 ELSE now - stop]
  /\ UNCHANGED <<now, mark, laps, heap, formatter, formattingMode, returned>>

\* faulty variant: resuming also clears mark
StartClearsMark ==
  /\ IF ~active
       THEN /\ start' = start + (now - stop)
            /\ stop' = ZeroTime
            /\ mark' = 0
       ELSE UNCHANGED <<start, stop, mark>>
  /\ last' = [Void("Start") EXCEPT !.diff = IF active THEN 0 ELSE now - stop]
  /\ UNCHANGED <<now, laps, heap, formatter, formattingMode, returned>>

\* faulty variant: Start on an active stopwatch restarts it
StartRestarts ==
  /\ IF ~active
       THEN /\ start' = start + (now - stop)
            /\ stop' = ZeroTime
       ELSE /\ start' = now
            /\ stop' = stop
  /\ last' = [Void("Start") EXCEPT !.diff = IF active THEN 0 ELSE now - stop]
  /\ UNCHANGED <<now, mark, laps, heap, formatter, formattingMode, returned>>

Start ==
  /\ IF ~active
       THEN /\ start' = start + (now - stop)
            /\ stop' = ZeroTime
       ELSE UNCHANGED <<start, stop>>
  /\ last' = [Void("Start") EXCEPT !.diff = IF active THEN 0 ELSE now - stop]
  /\ UNCHANGED <<now, mark, laps, heap, formatter, formattingMode, returned>>

Init ==
  /\ now = ZeroTime + 1
  /\ \E offset \in Offsets, act \in BOOLEAN :
       /\ start = now - offset
       /\ stop = IF act THEN ZeroTime ELSE now
       /\ last = [op |-> "New", offset |-> offset, active |-> act, t |-> ZeroTime,
                  state |-> "", data |-> NilData, formatter |-> NilFunc, mode |-> "",
                  ret |-> 0, lap |-> ZeroLap, wasActive |-> FALSE,
                  diff |-> 0, at |-> now, text |-> ""]
  /\ mark = 0
  /\ laps = NilSlice
  /\ heap = EmptyHeap
  /\ formatter = defaultFormatter
  /\ formattingMode = defaultFormattingMode
  /\ returned = NilSlice
  /\ pc = [th \in Threads |-> "idle"]
  /\ call = [th \in Threads |-> NoCall]
  /\ writer = NoThread
  /\ readers = {}
  /\ acq = <<>>
  /\ committed = [latest |-> <<start, stop>>, seen |-> {<<start, stop>>}]

\* read-only calls: they only hand a value back to the caller
CallElapsedTime ==
  /\ last' = [Void("ElapsedTime") EXCEPT !.ret = ElapsedTime]
  /\ UNCHANGED <<now, start, stop, mark, laps, heap, formatter, formattingMode, returned>>

CallElapsedTimeFrom(t) ==
  /\ last' = [Void("ElapsedTimeFrom") EXCEPT !.t = t, !.ret = ElapsedTimeFrom(t)]
  /\ UNCHANGED <<now, start, stop, mark, laps, heap, formatter, formattingMode, returned>>

LapTime ==
  /\ last' = [Void("LapTime") EXCEPT !.ret = ElapsedTime - mark]
  /\ UNCHANGED <<now, start, stop, mark, laps, heap, formatter, formattingMode, returned>>

\* faulty variant: the lap's duration is the whole elapsed time
LapDurationFromStart(entry, t, state, data) ==
  LET elapsed == ElapsedTimeFrom(t)
      lap     == MkLap(formatter, state, elapsed, data)
      newLaps == AppendSlice(laps, lap)
      newHeap == AppendHeap(heap, laps, lap)
  IN  /\ laps.len < MaxLaps
      /\ mark' = elapsed
      /\ laps' = NormLaps(newLaps)
      /\ heap' = NormHeap(newHeap, newLaps, returned)
      /\ returned' = NormRet(newLaps, returned)
      /\ last' = [Void(entry) EXCEPT !.t = t, !.state = state, !.data = data, !.lap = lap]
      /\ UNCHANGED <<now, start, stop, formatter, formattingMode>>

\* entry names the exported function the caller invoked
LapWithDataAndTime(entry, t, state, data) ==
  LET elapsed == ElapsedTimeFrom(t)
      lap     == MkLap(formatter, state, elapsed - mark, data)
      newLaps == AppendSlice(laps, lap)
      newHeap == AppendHeap(heap, laps, lap)
  IN  /\ laps.len < MaxLaps
      /\ mark' = elapsed
      /\ laps' = NormLaps(newLaps)
      /\ heap' = NormHeap(newHeap, newLaps, returned)
      /\ returned' = NormRet(newLaps, returned)
      /\ last' = [Void(entry) EXCEPT !.t = t, !.state = state, !.data = data, !.lap = lap]
      /\ UNCHANGED <<now, start, stop, formatter, formattingMode>>

LapWithData(entry, state, data) == LapWithDataAndTime(entry, now, state, data)

Lap(state) == LapWithData("Lap", state, NilData)

\* faulty variant: the internal slice itself is handed out
LapsAlias ==
  /\ returned' = laps
  /\ last' = Void("Laps")
  /\ UNCHANGED <<now, start, stop, mark, laps, heap, formatter, formattingMode>>

\* make([]Lap, len(s.laps)) followed by copy
Laps ==
  LET copied  == [arr |-> 3, len |-> laps.len, cap |-> laps.len]
      newHeap == [heap EXCEPT ![3] = Elems(heap, laps)]
  IN  /\ returned' = NormRet(laps, copied)
      /\ heap' = NormHeap(newHeap, laps, copied)
      /\ last' = Void("Laps")
      /\ UNCHANGED <<now, start, stop, mark, laps, formatter, formattingMode>>

\* faulty variant: the new formatter is also written into the recorded laps
SetFormatterRetroactive(f) ==
  /\ formatter' = f
  /\ heap' = [heap EXCEPT ![1] = [i \in 1 .. Len(heap[1]) |->
                 IF i <= laps.len THEN [heap[1][i] EXCEPT !.formatter = f] ELSE heap[1][i]]]
  /\ last' = [Void("SetFormatter") EXCEPT !.formatter = f]
  /\ UNCHANGED <<now, start, stop, mark, laps, formattingMode, returned>>

SetFormatter(f) ==
  /\ formatter' = f
  /\ last' = [Void("SetFormatter") EXCEPT !.formatter = f]
  /\ UNCHANGED <<now, start, stop, mark, laps, heap, formattingMode, returned>>

SetFormattingMode(newMode) ==
  /\ formattingMode' = newMode
  /\ last' = [Void("SetFormattingMode") EXCEPT !.mode = newMode]
  /\ UNCHANGED <<now, start, stop, mark, laps, heap, formatter, returned>>

\* the caller overwrites element i of the slice that Laps() returned to it
MutateReturned(i) ==
  /\ returned.arr # 0
  /\ i \in 1 .. returned.len
  /\ heap[returned.arr][i] # ZeroLap
  /\ heap' = [heap EXCEPT ![returned.arr][i] = ZeroLap]
  /\ UNCHANGED <<now, start, stop, mark, laps, formatter, formattingMode, returned, last>>

\* ------------------------------------------------------- specifications
\* The specifications share Init and the operations and differ in what
\* the caller does and in the arguments it passes.

\* A caller that times and records laps (with any reference time and without
\* metadata) and never reconfigures the stopwatch.
Next ==
  \/ Tick /\ OneCaller
  \/ \E offset \in Offsets, act \in BOOLEAN : Reset(offset, act) /\ OneCaller
  \/ Stop /\ OneCaller
  \/ Start /\ OneCaller
  \/ CallElapsedTime /\ OneCaller
  \/ \E t \in RefTimes : CallElapsedTimeFrom(t) /\ OneCaller
  \/ LapTime /\ OneCaller
  \/ \E state \in Labels : Lap(state) /\ OneCaller
  \/ \E state \in Labels : LapWithData("LapWithData", state, NilData) /\ OneCaller
  \/ \E t \in RefTimes, state \in Labels :
        LapWithDataAndTime("LapWithDataAndTime", t, state, NilData) /\ OneCaller

Spec == Init /\ [][Next]_vars

\* A caller that also replaces the formatter and the formatting mode, and
\* records its laps at the current time under one label, with or without
\* metadata.
NextConfig ==
  \/ Tick /\ OneCaller
  \/ \E offset \in Offsets, act \in BOOLEAN : Reset(offset, act) /\ OneCaller
  \/ Stop /\ OneCaller
  \/ Start /\ OneCaller
  \/ Lap("a") /\ OneCaller
  \/ \E data \in DataVals : LapWithData("LapWithData", "a", data) /\ OneCaller
  \/ \E f \in Formatters : SetFormatter(f) /\ OneCaller
  \/ \E newMode \in Modes : SetFormattingMode(newMode) /\ OneCaller

SpecConfig == Init /\ [][NextConfig]_vars

\* A caller that reads the lap history with Laps() and writes into the slice
\* it got, while laps keep being recorded and the stopwatch is reset.
NextLaps ==
  \/ Tick /\ OneCaller
  \/ \E offset \in {0, 2}, act \in BOOLEAN : Reset(offset, act) /\ OneCaller
  \/ Lap("a") /\ OneCaller
  \/ \E t \in RefTimes : LapWithDataAndTime("LapWithDataAndTime", t, "a", NilData) /\ OneCaller
  \/ Laps /\ OneCaller
  \/ \E i \in 1 .. MaxLaps : MutateReturned(i) /\ OneCaller

SpecLaps == Init /\ [][NextLaps]_vars

\* A caller that uses every operation that could touch mark: it times,
\* records laps under one label with any reference time, reads the lap time
\* and replaces the formatter and the formatting mode.
NextMark ==
  \/ Tick /\ OneCaller
  \/ \E offset \in {0, 2}, act \in BOOLEAN : Reset(offset, act) /\ OneCaller
  \/ Stop /\ OneCaller
  \/ Start /\ OneCaller
  \/ LapTime /\ OneCaller
  \/ Lap("a") /\ OneCaller
  \/ \E t \in RefTimes : LapWithDataAndTime("LapWithDataAndTime", t, "a", NilData) /\ OneCaller
  \/ SetFormatter("custom") /\ OneCaller
  \/ SetFormattingMode(FormattingModeJsonMsObject) /\ OneCaller

SpecMark == Init /\ [][NextMark]_vars
\* ------------------------------------------------------------ properties
LapEntries == {"Lap", "LapWithData", "LapWithDataAndTime"}

\* the step is a lap recording; its arguments are those the call record holds
LapStep ==
  /\ last'.op \in LapEntries
  /\ LapWithDataAndTime(last'.op, last'.t, last'.state, last'.data)

\* the step is a SetFormatter call
SetFormatterStep ==
  /\ last'.op = "SetFormatter"
  /\ SetFormatter(last'.formatter)

RECURSIVE SumDurations(_)
SumDurations(ls) ==
  IF ls = <<>> THEN 0 ELSE ls[1].duration + SumDurations(Tail(ls))

\* C1: whenever the lap history holds at least one lap, the sum of the
\* durations of its laps equals mark, the elapsed time computed by the most
\* recent lap recording.
C1_SumOfLapsIsMark ==
  Len(History) >= 1 => SumDurations(History) = mark

\* a lap recording has just added the second of two laps of non-zero duration
C1_Witness ==
  /\ last.op \in LapEntries
  /\ Len(History) = 2
  /\ History[1].duration # 0
  /\ History[2].duration # 0
  /\ mark = History[1].duration + History[2].duration

\* C2: a Start() on a stopped stopwatch leaves the elapsed time at the value
\* frozen by the Stop() before it, whatever time passed in between.
C2_PauseExcluded ==
  [][(Start /\ ~active) => ElapsedTime' = stop - start]_vars

\* a Start() resumed the stopwatch after a pause of non-zero length
C2_Witness ==
  /\ last.op = "Start"
  /\ ~last.wasActive
  /\ last.diff > 0
  /\ active
  /\ now - start = ElapsedTime

\* C3: Stop() on a stopped stopwatch does not move the stop point and leaves
\* ElapsedTime() as it was.
C3_StopIdempotent ==
  [][(Stop /\ ~active) => (stop' = stop /\ ElapsedTime' = ElapsedTime)]_vars

\* a second Stop() arrived after the clock had moved on from the stop point
C3_Witness ==
  /\ last.op = "Stop"
  /\ ~last.wasActive
  /\ ~active
  /\ now > stop

\* C4: Start() on an active stopwatch changes none of start, stop, mark, laps,
\* formatter and formattingMode.
C4_StartActiveNoOp ==
  [][(Start /\ active) =>
       UNCHANGED <<start, stop, mark, laps, heap, formatter, formattingMode>>]_vars

\* Start() was called on an active, reconfigured stopwatch holding a lap
C4_Witness ==
  /\ last.op = "Start"
  /\ last.wasActive
  /\ Len(History) >= 1
  /\ formatter # defaultFormatter
  /\ formattingMode # defaultFormattingMode
  /\ now - start > 0

\* C5: after New(o, false) or Reset(o, false) with o >= 0, ElapsedTime() is o,
\* and while the stopwatch is stopped every step other than Start and Reset
\* (a clock tick included) leaves ElapsedTime() as it is.
C5_StoppedElapsedIsOffset ==
  /\ [](((last.op \in {"New", "Reset"}) /\ ~last.active /\ last.offset >= 0)
          => ElapsedTime = last.offset)
  /\ [][(~active /\ ~Start /\ ~(\E o \in Offsets, a \in BOOLEAN : Reset(o, a)))
          => ElapsedTime' = ElapsedTime]_vars

\* the clock moved on after a Reset(2, false) and the elapsed time is still 2
C5_Witness ==
  /\ last.op = "Reset"
  /\ ~last.active
  /\ last.offset = 2
  /\ now > stop
  /\ ElapsedTime = 2

\* C6: a lap recording with reference time t appends exactly one Lap, with
\* the given label and duration ElapsedTimeFrom(t) - mark, to the end of the
\* history, sets mark to ElapsedTimeFrom(t), leaves start and stop alone and
\* returns the Lap it appended.
C6_LapRecording ==
  [][LapStep =>
       /\ Len(History') = Len(History) + 1
       /\ SubSeq(History', 1, Len(History)) = History
       /\ History'[Len(History')].duration = ElapsedTimeFrom(last'.t) - mark
       /\ History'[Len(History')].state = last'.state
       /\ mark' = ElapsedTimeFrom(last'.t)
       /\ start' = start
       /\ stop' = stop
       /\ last'.lap = History'[Len(History')]]_vars

\* a second lap was recorded with an explicit reference time and returned
C6_Witness ==
  /\ last.op = "LapWithDataAndTime"
  /\ Len(History) = 2
  /\ last.lap = History[2]
  /\ last.lap.duration # 0
  /\ last.lap.duration # mark
  /\ last.lap.state = "b"

\* C7: Reset(offset, active) sets mark to zero, empties the lap history, sets
\* start = now - offset and stop = unset if active, else now, and leaves
\* formatter and formattingMode unchanged.
C7_ResetEffect ==
  [][\A o \in Offsets, a \in BOOLEAN :
       Reset(o, a) =>
         /\ mark' = 0
         /\ History' = <<>>
         /\ laps' = NilSlice
         /\ start' = now - o
         /\ stop' = (IF a THEN ZeroTime ELSE now)
         /\ formatter' = formatter
         /\ formattingMode' = formattingMode]_vars

\* a reconfigured stopwatch was reset at a later clock time
C7_Witness ==
  /\ last.op = "Reset"
  /\ formatter # defaultFormatter
  /\ formattingMode # defaultFormattingMode
  /\ now > ZeroTime + 1
  /\ mark = 0
  /\ History = <<>>

\* C8: Laps() hands out the lap history in order, and no write of the caller
\* into the slice it got changes the stopwatch's lap history (and so the
\* result of a later Laps() call).
C8_LapsReturnsCopy ==
  [][/\ Laps => (Elems(heap', returned') = History /\ History' = History)
     /\ (\E i \in 1 .. MaxLaps : MutateReturned(i)) => History' = History]_vars

\* the caller has overwritten an element of its copy; the history still has it
C8_Witness ==
  /\ returned.len >= 1
  /\ Len(History) >= 1
  /\ Elems(heap, returned)[1] = ZeroLap
  /\ History[1] # ZeroLap

\* C9: a lap recording stores the formatter configured at that moment in the
\* new Lap, and SetFormatter changes no Lap of the history.
C9_FormatterCaptured ==
  [][/\ SetFormatterStep => History' = History
     /\ LapStep =>
          /\ Len(History') = Len(History) + 1
          /\ History'[Len(History')].formatter = formatter
          /\ \A i \in 1 .. Len(History) : History'[i].formatter = History[i].formatter]_vars

\* the formatter was replaced after each of two laps
C9_Witness ==
  /\ last.op = "SetFormatter"
  /\ Len(History) = 2
  /\ History[1].formatter # History[2].formatter
  /\ History[2].formatter # formatter

\* C10: ElapsedTimeFrom(t) returns stop - start, which is ElapsedTime(), on a
\* stopped stopwatch whatever t is, and t - start on an active one.
C10_ElapsedTimeFrom ==
  last.op = "ElapsedTimeFrom" =>
    IF active
      THEN last.ret = last.t - start
      ELSE last.ret = stop - start /\ last.ret = ElapsedTime

\* ElapsedTimeFrom was called on a stopped stopwatch with a reference time
\* other than the stop point and other than the current time
C10_Witness ==
  /\ last.op = "ElapsedTimeFrom"
  /\ ~active
  /\ last.t # stop
  /\ last.t # now
  /\ last.ret = stop - start

\* the step is a New-like reinitialisation with the offset the call record holds
ResetStep ==
  /\ last'.op = "Reset"
  /\ Reset(last'.offset, last'.active)

\* C14: for a stopwatch created or reset active with a negative offset -o at
\* clock time t0, ElapsedTime() at clock time t is (t - t0) - o: negative while
\* t - t0 < o, zero when t - t0 = o and positive afterwards.
C14_Countdown ==
  (last.op \in {"New", "Reset"} /\ last.active /\ last.offset < 0) =>
    LET o  == 0 - last.offset
        dt == now - last.at
    IN  /\ ElapsedTime = dt - o
        /\ (dt < o => ElapsedTime < 0)
        /\ (dt = o => ElapsedTime = 0)
        /\ (dt > o => ElapsedTime > 0)

\* a Reset(-1, true) at a later clock time, still counting down
C14_Witness ==
  /\ last.op = "Reset"
  /\ last.active
  /\ last.offset = -1
  /\ last.at > ZeroTime + 1
  /\ now = last.at
  /\ ElapsedTime = -1

\* C16 as stated: in every reachable state stop is unset or not before start.
C16_StopNotBeforeStart ==
  active \/ stop >= start

\* C16 amended: New and Reset with a non-negative offset leave the elapsed time
\* non-negative, and every step other than a Reset with a negative offset
\* keeps a non-negative elapsed time non-negative; with a non-negative elapsed
\* time stop is unset or not before start.
C16_NonNegativeOffsets ==
  /\ []((last.op = "New" /\ last.offset >= 0) => ElapsedTime >= 0)
  /\ [][/\ (ResetStep /\ last'.offset >= 0) => ElapsedTime' >= 0
        /\ (ElapsedTime >= 0 /\ ~(ResetStep /\ last'.offset < 0)) =>
             (ElapsedTime' >= 0 /\ (active' \/ stop' >= start'))]_vars

\* a running stopwatch that has recorded a lap was stopped with time elapsed
C16_Witness ==
  /\ last.op = "Stop"
  /\ last.wasActive
  /\ stop > start
  /\ stop = now
  /\ mark > 0

\* C17 as stated: no step other than a Reset makes mark smaller.
C17_MarkNeverDecreases ==
  [][ResetStep \/ mark' >= mark]_vars

\* C17 amended: only lap recordings and Reset change mark; a lap recording
\* with reference time t sets mark to ElapsedTimeFrom(t) and so lowers it
\* exactly when the lap it records has a negative duration; Reset sets mark to
\* zero.
C17_MarkChanges ==
  [][/\ mark' # mark => (ResetStep \/ LapStep)
     /\ ResetStep => mark' = 0
     /\ (LapStep /\ ~ResetStep) =>
          /\ mark' = ElapsedTimeFrom(last'.t)
          /\ mark' = mark + last'.lap.duration
          /\ (mark' < mark <=> last'.lap.duration < 0)]_vars

\* a lap recorded with a reference time before the previous lap boundary has
\* lowered mark
C17_Witness ==
  /\ last.op = "LapWithDataAndTime"
  /\ Len(History) = 2
  /\ last.lap.duration < 0
  /\ mark < History[1].duration
  /\ formatter # defaultFormatter
  /\ formattingMode # defaultFormattingMode

\* C20: a lap recorded on a stopped stopwatch has duration (stop - start) -
\* mark and sets mark to stop - start, whatever the reference time; from then
\* on, while the stopwatch stays stopped, mark stays stop - start, so every
\* further lap has duration zero and leaves mark unchanged.
C20_LapsWhileStopped ==
  [][/\ (LapStep /\ ~active) =>
          /\ Len(History') = Len(History) + 1
          /\ last'.lap.duration = (stop - start) - mark
          /\ mark' = stop - start
          /\ (mark = stop - start => (last'.lap.duration = 0 /\ mark' = mark))
     /\ (~active /\ mark = stop - start /\ ~Start /\ ~ResetStep) =>
          (~active' /\ mark' = stop' - start')]_vars

\* the second of two laps recorded on a stopped stopwatch, with a reference
\* time other than the stop point, has duration zero after a first of
\* non-zero duration
C20_Witness ==
  /\ last.op = "LapWithDataAndTime"
  /\ ~last.wasActive
  /\ ~active
  /\ last.t # stop
  /\ Len(History) = 2
  /\ History[1].duration # 0
  /\ History[2].duration = 0
  /\ mark = stop - start

\* -------------------------------------------------------------- rendering
\* One clock unit is one millisecond. time.Duration.String() of a whole
\* number of milliseconds below one second: "0s" for zero, else "<n>ms".
DurationString(d) == IF d = 0 THEN "0s" ELSE ToString(d) \o "ms"

\* the call lap.formatter(lap.duration): defaultFormatter returns
\* duration.String(); the caller's own formatter prints the bare number
ApplyFormatter(f, d) == IF f = defaultFormatter THEN DurationString(d) ELSE "#" \o ToString(d)

\* Lap.String(): "label: formatted-duration" plus the metadata, if any
LapString(lap) ==
  lap.state \o ": " \o ApplyFormatter(lap.formatter, lap.duration)
     \o (IF lap.data = NilData THEN "" ELSE " " \o lap.data)

\* strings.Join(results, ", ")
RECURSIVE Join(_)
Join(results) ==
  IF results = <<>> THEN ""
  ELSE IF Len(results) = 1 THEN results[1]
  ELSE results[1] \o ", " \o Join(Tail(results))

\* lapValueFormatter is a function over the laps held
formatAsObject(lapValueFormatter) ==
  "{" \o Join([i \in 1 .. Len(History) |-> lapValueFormatter[History[i]]]) \o "}"

\* fmt.Sprintf(`"%s":"%s"`, lap.state, lap.formatter(lap.duration))
SimpleObjectValue == [lap \in {History[i] : i \in 1 .. Len(History)} |->
  "\"" \o lap.state \o "\":\"" \o ApplyFormatter(lap.formatter, lap.duration) \o "\""]

\* fmt.Sprintf(`"%s":%.3f`, lap.state, float64(lap.duration.Microseconds())/1000.0)
MsObjectValue == [lap \in {History[i] : i \in 1 .. Len(History)} |->
  "\"" \o lap.state \o "\":" \o ToString(lap.duration) \o ".000"]

formatAsArray ==
  "[" \o Join([i \in 1 .. Len(History) |-> LapString(History[i])]) \o "]"

defaultedFormattingMode(src) == IF src = "" THEN defaultFormattingMode ELSE src

\* faulty variant: no default branch, so an unrecognized tag renders nothing
\* and only the empty tag is defaulted
StringTextNoDefault(mode) ==
  LET m == defaultedFormattingMode(mode)
  IN  IF m = FormattingModeJsonSimpleObject THEN formatAsObject(SimpleObjectValue)
      ELSE IF m = FormattingModeJsonMsObject THEN formatAsObject(MsObjectValue)
      ELSE IF m = FormattingModeJsonArray THEN formatAsArray
      ELSE ""

\* the text String() returns when the formatting mode is mode
StringText(mode) ==
  LET m == defaultedFormattingMode(mode)
  IN  IF m = FormattingModeJsonSimpleObject THEN formatAsObject(SimpleObjectValue)
      ELSE IF m = FormattingModeJsonMsObject THEN formatAsObject(MsObjectValue)
      ELSE formatAsArray

\* String(), and MarshalJSON() which returns the bytes of String()
String(entry) ==
  /\ last' = [Void(entry) EXCEPT !.mode = formattingMode, !.text = StringText(formattingMode)]
  /\ UNCHANGED <<now, start, stop, mark, laps, heap, formatter, formattingMode, returned>>

\* formatting modes a caller may set: the three tags, the empty tag and a
\* tag that is none of them
RenderModes == Modes \cup {"XML"}
KnownModes == {FormattingModeJsonArray, FormattingModeJsonSimpleObject, FormattingModeJsonMsObject}

\* A caller that records laps with and without metadata, replaces the
\* formatter and the formatting mode, and renders the stopwatch.
NextRender ==
  \/ Tick /\ OneCaller
  \/ Lap("b") /\ OneCaller
  \/ LapWithData("LapWithData", "a", "d1") /\ OneCaller
  \/ SetFormatter("custom") /\ OneCaller
  \/ \E newMode \in RenderModes : SetFormattingMode(newMode) /\ OneCaller
  \/ String("String") /\ OneCaller
  \/ String("MarshalJSON") /\ OneCaller

SpecRender == Init /\ [][NextRender]_vars

\* C13: for every formatting mode that is empty or none of the three tags,
\* String / MarshalJSON return, for the lap history at hand, exactly the text
\* they return in mode "JSON_ARRAY": the bracketed list of Lap.String()
\* values; and a rendering call made in such a mode has returned that text.
C13_UnknownModeIsArray ==
  /\ \A m \in RenderModes \ KnownModes :
        /\ StringText(m) = StringText(FormattingModeJsonArray)
        /\ StringText(m) = formatAsArray
  /\ (last.op \in {"String", "MarshalJSON"} /\ last.mode \notin KnownModes) =>
        last.text = StringText(FormattingModeJsonArray)

\* String() was called in an unrecognized mode on a history of two laps, one
\* with metadata, whose array text differs from both object texts
C13_Witness ==
  /\ last.op = "String"
  /\ last.mode = "XML"
  /\ Len(History) = 2
  /\ History[1].data # NilData
  /\ History[1].duration # 0
  /\ History[2].formatter # defaultFormatter
  /\ last.text = formatAsArray
  /\ last.text # StringText(FormattingModeJsonSimpleObject)
  /\ last.text # StringText(FormattingModeJsonMsObject)

\* ------------------------------------------------------ concurrent callers
\* Each caller in Threads runs one call at a time. A call is a sequence of
\* steps: it is invoked (reading time.Now() where the code reads it before
\* taking the lock), acquires the lock, runs its critical section, releases
\* the lock and returns.

\* the label each caller passes to Lap
LabelOf(th) == IF th = "T1" THEN "a" ELSE "b"

\* operations that call s.Lock() and operations that call s.RLock()
LockOps == {"Reset", "Stop", "Start", "Lap", "SetFormatter", "SetFormattingMode"}
RLockOps == {"LapTime", "String"}

InFlight(th) == pc[th] # "idle"
\* the caller is between acquiring the lock and releasing it
InCriticalSection(th) == writer = th \/ th \in readers

\* Reset with the clock reading t taken on entry, before s.Lock()
ResetAt(t, offset, act) ==
  /\ start' = t - offset
  /\ stop' = IF act THEN ZeroTime ELSE t
  /\ mark' = 0
  /\ laps' = NilSlice
  /\ heap' = NormHeap(heap, NilSlice, returned)
  /\ returned' = NormRet(NilSlice, returned)
  /\ last' = [Void("Reset") EXCEPT !.offset = offset, !.active = act, !.at = t]
  /\ UNCHANGED <<now, formatter, formattingMode>>

\* the caller invokes op; Reset and Lap read the clock at once, and the
\* caller of ElapsedTimeFrom passes the clock reading it has just taken
Invoke(th, op, offset, act) ==
  /\ pc[th] = "idle"
  /\ op = "Lap" =>
       laps.len + Cardinality({o \in Threads : InFlight(o) /\ call[o].op = "Lap"}) < MaxLaps
  /\ call' = [call EXCEPT ![th] =
                [NoCall EXCEPT !.op = op, !.offset = offset, !.active = act,
                               !.t = IF op \in {"Reset", "Lap", "ElapsedTimeFrom"}
                                       THEN now ELSE ZeroTime]]
  /\ pc' = [pc EXCEPT ![th] = IF op \in LockOps THEN "Lock"
                               ELSE IF op \in RLockOps THEN "RLock" ELSE "read"]
  /\ UNCHANGED <<writer, readers, acq, committed>>
  /\ UNCHANGED seqVars

\* s.Lock() returns: nobody holds the lock
AcquireLock(th) ==
  /\ pc[th] = "Lock"
  /\ writer = NoThread
  /\ readers = {}
  /\ writer' = th
  /\ pc' = [pc EXCEPT ![th] = "body"]
  /\ acq' = IF call[th].op = "Lap"
              THEN Append(acq, [th |-> th, t |-> call[th].t, recorded |-> FALSE, elapsed |-> 0])
              ELSE acq
  /\ UNCHANGED <<call, readers, committed>>
  /\ UNCHANGED seqVars

\* faulty variant: a read lock that does not wait for the writer to unlock
AcquireRLockPastWriter(th) ==
  /\ pc[th] = "RLock"
  /\ readers' = readers \cup {th}
  /\ pc' = [pc EXCEPT ![th] = "body"]
  /\ UNCHANGED <<call, writer, acq, committed>>
  /\ UNCHANGED seqVars

\* s.RLock() returns: no writer holds the lock and none waits for it
AcquireRLock(th) ==
  /\ pc[th] = "RLock"
  /\ writer = NoThread
  /\ \A o \in Threads : pc[o] # "Lock"
  /\ readers' = readers \cup {th}
  /\ pc' = [pc EXCEPT ![th] = "body"]
  /\ UNCHANGED <<call, writer, acq, committed>>
  /\ UNCHANGED seqVars

\* the deferred s.Unlock() / s.RUnlock() runs and the call returns
Release(th) ==
  /\ pc[th] = "unlock"
  /\ writer' = IF writer = th THEN NoThread ELSE writer
  /\ readers' = readers \ {th}
  /\ pc' = [pc EXCEPT ![th] = "idle"]
  /\ call' = [call EXCEPT ![th] = NoCall]
  /\ UNCHANGED <<acq, committed>>
  /\ UNCHANGED seqVars

\* the critical section of a call is done; only the deferred unlock is left
ToUnlock(th) == pc' = [pc EXCEPT ![th] = "unlock"]

\* critical section of Lap -> LapWithData -> LapWithDataAndTime
LapBody(th) ==
  /\ pc[th] = "body"
  /\ call[th].op = "Lap"
  /\ LapWithDataAndTime("Lap", call[th].t, LabelOf(th), NilData)
  /\ ToUnlock(th)
  /\ call' = [call EXCEPT ![th].ret = last'.lap.duration]
  /\ acq' = [acq EXCEPT ![Len(acq)].recorded = TRUE,
                        ![Len(acq)].elapsed = ElapsedTimeFrom(call[th].t)]
  /\ UNCHANGED <<writer, readers>>
  /\ Commit

ResetBody(th) ==
  /\ pc[th] = "body"
  /\ call[th].op = "Reset"
  /\ ResetAt(call[th].t, call[th].offset, call[th].active)
  /\ ToUnlock(th)
  /\ acq' = <<>>
  /\ UNCHANGED <<call, writer, readers>>
  /\ Commit

\* faulty variant: the no-op branch returns without unlocking
StopBodyKeepsLock(th) ==
  /\ pc[th] = "body"
  /\ call[th].op = "Stop"
  /\ Stop
  /\ pc' = [pc EXCEPT ![th] = IF active THEN "unlock" ELSE "idle"]
  /\ UNCHANGED <<call, writer, readers, acq>>
  /\ Commit

StopBody(th) ==
  /\ pc[th] = "body"
  /\ call[th].op = "Stop"
  /\ Stop
  /\ ToUnlock(th)
  /\ UNCHANGED <<call, writer, readers, acq>>
  /\ Commit

StartBody(th) ==
  /\ pc[th] = "body"
  /\ call[th].op = "Start"
  /\ Start
  /\ ToUnlock(th)
  /\ UNCHANGED <<call, writer, readers, acq>>
  /\ Commit

\* Callers that concurrently record laps with the clock reading as reference
\* time and reset the stopwatch, running or stopped, with non-negative offsets.
InitNonNegative == Init /\ last.offset >= 0
\* New(0, true)
InitRunning == Init /\ last.offset = 0 /\ last.active

NextLapConc ==
  \/ Tick /\ OneCaller
  \/ \E th \in Threads : Invoke(th, "Lap", 0, FALSE)
  \/ \E th \in Threads, offset \in {0, 2}, act \in BOOLEAN : Invoke(th, "Reset", offset, act)
  \/ \E th \in Threads : AcquireLock(th)
  \/ \E th \in Threads : LapBody(th)
  \/ \E th \in Threads : ResetBody(th)
  \/ \E th \in Threads : Release(th)

SpecLapConc == InitNonNegative /\ [][NextLapConc]_vars

\* C12: whatever the interleaving, the lap history holds exactly one entry
\* for every lap recording that ran its critical section since the last Reset
\* (none lost, none twice), in the order in which the calls acquired the
\* lock; each entry carries its caller's label and its duration is the
\* elapsed value of its call minus the mark left by the entry before it (zero
\* for the first); critical sections never overlap, so at most one call is
\* between acquiring and recording, and it is the last to have acquired.
C12_LapsInLockOrder ==
  LET n == Len(History)
      pending == {th \in Threads : pc[th] = "body" /\ call[th].op = "Lap"}
  IN  /\ \A a, b \in Threads :
            (pc[a] \in {"body", "unlock"} /\ pc[b] \in {"body", "unlock"}) => a = b
      /\ \A th \in Threads : pc[th] \in {"body", "unlock"} <=> writer = th
      /\ Len(acq) = n + Cardinality(pending)
      /\ Cardinality(pending) <= 1
      /\ \A th \in pending : acq[Len(acq)].th = th /\ ~acq[Len(acq)].recorded
      /\ \A i \in 1 .. n :
            /\ acq[i].recorded
            /\ History[i].state = LabelOf(acq[i].th)
            /\ History[i].duration =
                 acq[i].elapsed - (IF i = 1 THEN 0 ELSE acq[i - 1].elapsed)
      /\ n > 0 => mark = acq[n].elapsed
      /\ n = 0 => mark = 0

\* two callers recorded one lap each; the one that read the clock later
\* acquired the lock first, and the history is in lock order
C12_Witness ==
  /\ Len(History) = 2
  /\ \A th \in Threads : pc[th] = "idle"
  /\ acq[1].th # acq[2].th
  /\ acq[1].t > acq[2].t
  /\ History[1].state = LabelOf(acq[1].th)
  /\ History[2].state = LabelOf(acq[2].th)

\* C19 as stated: every lap in the history has a non-negative duration
C19_NoNegativeLap ==
  \A i \in 1 .. Len(History) : History[i].duration >= 0

\* ------------------------------------------- reads that take no lock
\* ElapsedTime and ElapsedTimeFrom read s.stop and s.start without locking,
\* one field at a time, so the steps of a concurrent writer can fall between
\* two reads; Start writes s.start and then s.stop, two steps under its lock.

\* s.active(): the first read of s.stop
ReadActive(th) ==
  /\ pc[th] = "read"
  /\ call' = [call EXCEPT ![th].sawStop = stop]
  /\ pc' = [pc EXCEPT ![th] = "read2"]
  /\ UNCHANGED <<writer, readers, acq, committed>>
  /\ UNCHANGED seqVars

\* the next field read: s.start when active() was true, else s.stop again
\* (the receiver of s.stop.Sub(s.start))
ReadNext(th) ==
  /\ pc[th] = "read2"
  /\ IF call[th].sawStop = ZeroTime
       THEN /\ call' = [call EXCEPT ![th].sawStart = start]
            /\ pc' = [pc EXCEPT ![th] = "since"]
       ELSE /\ call' = [call EXCEPT ![th].sawStop = stop]
            /\ pc' = [pc EXCEPT ![th] = "read3"]
  /\ UNCHANGED <<writer, readers, acq, committed>>
  /\ UNCHANGED seqVars

\* the value is computed and handed to the caller; legal is the set of
\* <<start, stop>> pairs that whole write operations left during the call
Return(th, value, pair) ==
  /\ call' = [call EXCEPT ![th].ret = value, ![th].sawStart = pair[1],
                          ![th].sawStop = pair[2],
                          ![th].legal = committed.seen]
  /\ pc' = [pc EXCEPT ![th] = "returned"]
  /\ committed' = IF \E o \in Threads \ {th} : pc[o] \in ReadPcs THEN committed
                  ELSE [committed EXCEPT !.seen = {committed.latest}]
  /\ UNCHANGED <<writer, readers, acq>>
  /\ UNCHANGED seqVars

\* active: time.Since(s.start), or now.Sub(s.start) with the caller's now
ReturnActive(th) ==
  /\ pc[th] = "since"
  /\ Return(th, (IF call[th].op = "ElapsedTime" THEN now ELSE call[th].t) - call[th].sawStart,
            <<call[th].sawStart, ZeroTime>>)

\* stopped: the read of s.start, then s.stop.Sub(s.start) (with whatever the
\* second read of s.stop saw, the zero time included)
ReturnStopped(th) ==
  /\ pc[th] = "read3"
  /\ Return(th, call[th].sawStop - start, <<start, call[th].sawStop>>)

\* the caller is done with the value it got
Forget(th) ==
  /\ pc[th] = "returned"
  /\ pc' = [pc EXCEPT ![th] = "idle"]
  /\ call' = [call EXCEPT ![th] = NoCall]
  /\ UNCHANGED <<writer, readers, acq, committed>>
  /\ UNCHANGED seqVars

\* Start, first write: s.start = s.start.Add(diff) (nothing to do and nothing
\* written when the stopwatch is active)
StartShift(th) ==
  /\ pc[th] = "body"
  /\ call[th].op = "Start"
  /\ IF ~active
       THEN /\ start' = start + (now - stop)
            /\ call' = [call EXCEPT ![th].ret = now - stop]
            /\ pc' = [pc EXCEPT ![th] = "body2"]
       ELSE /\ ToUnlock(th)
            /\ UNCHANGED <<start, call>>
  /\ last' = IF ~active THEN last ELSE Void("Start")
  /\ UNCHANGED <<now, stop, mark, laps, heap, formatter, formattingMode, returned>>
  /\ UNCHANGED <<writer, readers, acq, committed>>

\* Start, second write: s.stop = time.Time{}
StartClear(th) ==
  /\ pc[th] = "body2"
  /\ stop' = ZeroTime
  /\ last' = [Void("Start") EXCEPT !.wasActive = FALSE, !.diff = call[th].ret]
  /\ ToUnlock(th)
  /\ UNCHANGED <<now, start, mark, laps, heap, formatter, formattingMode, returned>>
  /\ UNCHANGED <<call, writer, readers, acq>>
  /\ Commit

\* One caller stops and resumes the stopwatch while the other reads the
\* elapsed time.
NextRace ==
  \/ Tick /\ OneCaller
  \/ Invoke("T1", "Stop", 0, FALSE)
  \/ Invoke("T1", "Start", 0, FALSE)
  \/ Invoke("T2", "ElapsedTime", 0, FALSE)
  \/ Invoke("T2", "ElapsedTimeFrom", 0, FALSE)
  \/ \E th \in Threads : AcquireLock(th)
  \/ \E th \in Threads : StopBody(th)
  \/ \E th \in Threads : StartShift(th)
  \/ \E th \in Threads : StartClear(th)
  \/ \E th \in Threads : Release(th)
  \/ \E th \in Threads : ReadActive(th)
  \/ \E th \in Threads : ReadNext(th)
  \/ \E th \in Threads : ReturnActive(th)
  \/ \E th \in Threads : ReturnStopped(th)
  \/ \E th \in Threads : Forget(th)

SpecRace == Init /\ [][NextRace]_vars

\* C11 as stated: the value an ElapsedTime / ElapsedTimeFrom call has returned
\* was computed from the <<start, stop>> pair of a state before or after a
\* whole write operation, never from a partially applied one.
C11_ReadsWholeWrites ==
  \A th \in Threads :
    pc[th] = "returned" =>
      <<call[th].sawStart, call[th].sawStop>> \in call[th].legal

\* ------------------------------------------ every operation, concurrently
SetFormatterBody(th) ==
  /\ pc[th] = "body"
  /\ call[th].op = "SetFormatter"
  /\ SetFormatter("custom")
  /\ ToUnlock(th)
  /\ UNCHANGED <<call, writer, readers, acq>>
  /\ Commit

SetFormattingModeBody(th) ==
  /\ pc[th] = "body"
  /\ call[th].op = "SetFormattingMode"
  /\ SetFormattingMode(FormattingModeJsonSimpleObject)
  /\ ToUnlock(th)
  /\ UNCHANGED <<call, writer, readers, acq>>
  /\ Commit

\* critical section of LapTime: return s.ElapsedTime() - s.mark
LapTimeBody(th) ==
  /\ pc[th] = "body"
  /\ call[th].op = "LapTime"
  /\ LapTime
  /\ ToUnlock(th)
  /\ call' = [call EXCEPT ![th].ret = last'.ret]
  /\ UNCHANGED <<writer, readers, acq>>
  /\ Commit

StringBody(th) ==
  /\ pc[th] = "body"
  /\ call[th].op = "String"
  /\ String("String")
  /\ ToUnlock(th)
  /\ UNCHANGED <<call, writer, readers, acq>>
  /\ Commit

\* a step of caller th inside a call it has invoked
Proceed(th) ==
  \/ AcquireLock(th)
  \/ AcquireRLock(th)
  \/ Release(th)
  \/ ResetBody(th)
  \/ StopBody(th)
  \/ StartBody(th)
  \/ LapBody(th)
  \/ SetFormatterBody(th)
  \/ SetFormattingModeBody(th)
  \/ LapTimeBody(th)
  \/ StringBody(th)
  \/ ReadActive(th)
  \/ ReadNext(th)
  \/ ReturnActive(th)
  \/ ReturnStopped(th)
  \/ Forget(th)

\* Two callers that between them invoke the public operations (all but
\* Laps, which locks as String does): both stop, resume and read the lap time;
\* one also resets, records laps and reconfigures, the other also renders and
\* reads the elapsed time.
NextLock ==
  \/ \E th \in Threads : Invoke(th, "Stop", 0, FALSE)
  \/ \E th \in Threads : Invoke(th, "Start", 0, FALSE)
  \/ \E th \in Threads : Invoke(th, "LapTime", 0, FALSE)
  \/ Invoke("T1", "Reset", 0, TRUE)
  \/ Invoke("T1", "Lap", 0, FALSE)
  \/ Invoke("T1", "SetFormatter", 0, FALSE)
  \/ Invoke("T1", "SetFormattingMode", 0, FALSE)
  \/ Invoke("T2", "String", 0, FALSE)
  \/ Invoke("T2", "ElapsedTime", 0, FALSE)
  \/ \E th \in Threads : Proceed(th)

\* The scheduler lets every caller that can take a step take one, and
\* sync.RWMutex hands the lock to every caller that keeps waiting for it
\* (a waiting writer holds back new readers; readers that waited go first
\* when the writer unlocks; a starving waiter gets the lock handed over).
FairLock ==
  \A th \in Threads :
    /\ WF_vars(Proceed(th))
    /\ SF_vars(AcquireLock(th))
    /\ SF_vars(AcquireRLock(th))

SpecLock == InitRunning /\ [][NextLock]_vars /\ FairLock

\* C15: a caller that is about to acquire the lock does not hold it; a caller
\* with no call in flight holds nothing (every exit path has released,
\* the no-op branches of Stop and Start included); whenever a call is in
\* flight some caller can take a step (no deadlock); and, under fair
\* scheduling, every invoked call eventually completes.
C15_EveryCallCompletes ==
  /\ [](\A th \in Threads :
          /\ pc[th] \in {"Lock", "RLock"} => ~InCriticalSection(th)
          /\ pc[th] = "idle" => ~InCriticalSection(th))
  /\ []((\E th \in Threads : InFlight(th)) => ENABLED (\E th \in Threads : Proceed(th)))
  /\ \A th \in Threads : InFlight(th) ~> ~InFlight(th)

\* a Stop that found the stopwatch already stopped has returned and released
\* the lock while the other caller waits for it
C15_Witness ==
  /\ last.op = "Stop"
  /\ ~last.wasActive
  /\ pc["T1"] = "idle"
  /\ writer = NoThread
  /\ pc["T2"] = "Lock"

\* Callers that read the lap time while the clock advances and the other
\* caller stops, resumes, records laps and renders.
NextShared ==
  \/ Tick /\ OneCaller
  \/ \E th \in Threads : Invoke(th, "LapTime", 0, FALSE)
  \/ Invoke("T1", "Stop", 0, FALSE)
  \/ Invoke("T1", "Start", 0, FALSE)
  \/ Invoke("T1", "Lap", 0, FALSE)
  \/ Invoke("T2", "String", 0, FALSE)
  \/ \E th \in Threads : AcquireLock(th)
  \/ \E th \in Threads : AcquireRLock(th)
  \/ \E th \in Threads : Release(th)
  \/ \E th \in Threads : StopBody(th)
  \/ \E th \in Threads : StartBody(th)
  \/ \E th \in Threads : LapBody(th)
  \/ \E th \in Threads : LapTimeBody(th)
  \/ \E th \in Threads : StringBody(th)

SpecShared == Init /\ [][NextShared]_vars

\* C18 as stated: while a LapTime call is inside its critical section no
\* other call is inside a critical section.
C18_LapTimeExclusive ==
  \A th \in Threads :
    (call[th].op = "LapTime" /\ InCriticalSection(th)) =>
      \A o \in Threads \ {th} : ~InCriticalSection(o)

\* C18 amended: LapTime holds the lock for reading during its whole
\* read-and-compute, so no writer is inside a critical section meanwhile
\* (other readers may be); it returns ElapsedTime() - mark and changes no
\* field and no lap.
C18_LapTimeShared ==
  /\ [](\A th \in Threads :
          (call[th].op = "LapTime" /\ pc[th] \in {"body", "unlock"}) =>
             /\ th \in readers
             /\ writer = NoThread
             /\ \A o \in Threads : pc[o] \in {"body", "unlock"} => o \in readers)
  /\ [][\A th \in Threads : LapTimeBody(th) =>
           /\ call'[th].ret = ElapsedTime - mark
           /\ History' = History
           /\ UNCHANGED <<start, stop, mark, laps, formatter, formattingMode>>]_vars

\* a LapTime call has computed a lap time that is not zero while the other
\* caller, rendering, is inside its critical section too
C18_Witness ==
  /\ call["T1"].op = "LapTime"
  /\ pc["T1"] = "unlock"
  /\ call["T1"].ret = ElapsedTime - mark
  /\ call["T1"].ret # 0
  /\ call["T2"].op = "String"
  /\ readers = Threads
====
